---- MODULE Spec2Model ----
(***************************************************************************)
(* Job lifecycle of the AdSurveillance backend: the /refresh and           *)
(* /cancel-job request handlers and the background fetch thread of         *)
(* api/ads_refresh.py, AdsFetcher.run_for_user of                          *)
(* ad_fetch_service/ads_fetcher.py and StatusManager.mark_job_as_stuck of  *)
(* ad_fetch_service/status_manager.py, all acting on the rows of the       *)
(* ads_fetch_jobs table.                                                   *)
(*                                                                         *)
(* Next to the job lifecycle, each in a specification of its own: the      *)
(* StatusManager called by one thread and by several, the formatters and   *)
(* the ads-count parser, token issuance and verification, get_stuck_jobs   *)
(* and the audience insights, the working directory during run_for_user,   *)
(* the competitor routes of api/daily_metrics.py and signup of api/auth.py.*)
(*                                                                         *)
(* Every store call (one supabase ...execute()) is one atomic step; a      *)
(* handler that makes several store calls is several steps, so that other  *)
(* handlers and threads interleave between them exactly where the code     *)
(* lets them.  Strings are modelled by their length, timestamps by whether *)
(* they are set.                                                           *)
(***************************************************************************)
EXTENDS Integers, FiniteSets, Sequences, TLC

(* ---------- bounds of the model ---------- *)
MaxJobs == 2        \* job rows that may be inserted (uuid4 ids 1..MaxJobs)
NumSlots == 1       \* request-handling threads serving requests at once
NumUsers == 2       \* users holding a valid token
MaxAds == 1         \* largest ads count the scraper output may carry
MaxCompetitors == 3 \* largest total_competitors of a job to display
MaxLines == 2       \* lines of scraper output that matter to the ads count
NumOwners == 1      \* users whose jobs a StatusManager registers
NumClients == 2     \* threads and clients at work at once outside the job handlers
NumFetchers == 3    \* background threads inside run_for_user at once
MaxRows == 2        \* rows the competitors table may hold

JobIds == 1..MaxJobs
Slots == 1..NumSlots
Users == 1..NumUsers
Owners == 1..NumOwners
Clients == 1..NumClients
Fetchers == 1..NumFetchers

(* ---------- program constants ---------- *)
LogCap == 10000          \* ads_refresh.py:175  len(logs) > 10000
TruncMarkLen == 15       \* ads_refresh.py:176  len("\n...[truncated]")
ErrCap == 500            \* ads_refresh.py:181  logs[:500]
DisabledLogLen == 65     \* ads_refresh.py:160-161  the two "disabled" lines
CancelMsgLen == 17       \* ads_refresh.py:439  len('Cancelled by user')
StuckMsgLen == 38        \* status_manager.py:493
EnvFailPrefixLen == 26   \* ads_fetcher.py:140  len("Environment check failed: ")
TimeoutMsgLen == 40      \* ads_fetcher.py:269  with the default timeout 300
ErrorPrefixLen == 27     \* ads_fetcher.py:274  len("Error running ads fetcher: ")
LogHeaderLen == 146      \* ads_fetcher.py:209-215  shortest header around stdout
ProgressCap == 95        \* status_manager.py:461  min(95, ...)
EstimateCap == 300       \* status_manager.py:458  min(estimated_total, 300)
SecondsPerCompetitor == 30   \* status_manager.py:457
AllPlatformsCount == 4   \* status_manager.py:453
EstimateMax == 50        \* ads_fetcher.py:260  min(50, ...)

NoUser == 0              \* verify_token's None
None == <<>>             \* a keyword argument passed as None; <<v>> passes v
NoRow == [user_id |-> NoUser, status |-> "absent", ads_fetched |-> 0,
          end_time |-> FALSE, error_message |-> 0, logs |-> 0]

Terminal == {"completed", "failed"}
Statuses == {"pending", "running", "completed", "failed"}

VARIABLES
    FETCHER_AVAILABLE,   \* ads_refresh.py module flag, fixed at import
    supabase,            \* TRUE iff create_client succeeded at import
    storeFaulty,         \* TRUE iff store calls may raise in this run
    jobs,                \* the ads_fetch_jobs table: job id -> row or NoRow
    bg,                  \* background thread of each job
    req,                 \* request handler running in each slot
    active_jobs,         \* StatusManager.active_jobs cache
    lock,                \* StatusManager.lock: "free" or "held"
    environ,             \* os.environ.get('SECRET_KEY'): "unset", "" or a key
    middleware,          \* TRUE iff AdSurveillance.middleware.auth imports
    issued,              \* the tokens signup and login have handed out
    call,                \* the last call of the part under study, its result
    updates,             \* update_job_status and get_job_status calls under way
    overlapped,          \* per job: a call for it began during another for it
    cwd,                 \* the working directory of the process
    fetches,             \* run_for_user calls under way
    competitors,         \* the competitors table, in insertion order
    creq,                \* competitor request handled for each client
    users,               \* the users table: the email of each row
    sreq                 \* signup request handled for each client

vars == <<FETCHER_AVAILABLE, supabase, storeFaulty, jobs, bg, req,
          active_jobs, lock, environ, middleware, issued, call,
          updates, overlapped, cwd, fetches, competitors, creq, users, sreq>>

\* The state of the parts that the web-service steps do not touch.
others == <<updates, overlapped, cwd, fetches, competitors, creq, users, sreq>>
aux == <<environ, middleware, issued, call, others>>

config == <<FETCHER_AVAILABLE, supabase, storeFaulty>>

(* ---------- tokens ---------- *)
\* An Authorization header: missing, undecodable, expired, or a valid token
\* carrying a user id.
Tokens ==
    {[kind |-> "missing", user_id |-> NoUser], [kind |-> "invalid", user_id |-> NoUser]}
    \cup [kind : {"expired", "valid"}, user_id : Users]

\* verify_token without the expiry check of jwt.decode.
verify_token_IgnoresExpiry(token) ==
    IF token.kind \in {"valid", "expired"} THEN token.user_id ELSE NoUser

\* verify_token: the user id of a valid token, None for everything else.
verify_token(token) ==
    IF token.kind = "valid" THEN token.user_id ELSE NoUser

(* ---------- the store ---------- *)
\* Outcomes of one store call: TRUE it executes, FALSE it raises.
StoreOutcomes == IF storeFaulty THEN {TRUE, FALSE} ELSE {TRUE}

Exists(j) == jobs[j] # NoRow

\* uuid.uuid4(): an id no row carries yet.
FreshJobId == Cardinality({j \in JobIds : Exists(j)}) + 1

\* The refresh pre-check query: rows of the user with status 'running'.
RunningJobsOf(user_id) ==
    {j \in JobIds : Exists(j) /\ jobs[j].user_id = user_id /\ jobs[j].status = "running"}

\* The pre-check with the wrong status string.
HasRunningJob_WrongStatus(user_id) ==
    \E j \in JobIds :
        Exists(j) /\ jobs[j].user_id = user_id /\ jobs[j].status = "pending"

HasRunningJob(user_id) == RunningJobsOf(user_id) # {}

\* create_job_record's job_data.
NewJobRow(user_id) ==
    [user_id |-> user_id, status |-> "pending", ads_fetched |-> 0,
     end_time |-> FALSE, error_message |-> 0, logs |-> 0]

(* ---------- request handlers ---------- *)
\* auth is the kind of Authorization header the request carried; escaped
\* tells that the handler ended by an exception it did not catch.
IdleReq == [op |-> "none", auth |-> "none", user_id |-> NoUser, force |-> FALSE,
            job |-> 0, pc |-> "idle", code |-> 0, escaped |-> FALSE]

InFlight(s) == req[s].pc \notin {"idle", "done"}

\* A handler that has returned: the response code, and whom it answered.
Response(op, auth, user_id, code) ==
    [op |-> op, auth |-> auth, user_id |-> user_id, force |-> FALSE, job |-> 0,
     pc |-> "done", code |-> code, escaped |-> FALSE]

Respond(s, code) ==
    [req EXCEPT ![s] = Response(req[s].op, req[s].auth, req[s].user_id, code)]

\* A store call raises outside every try block of the handler: the
\* exception leaves the view function, and Flask answers 500 for it.
Escape(s) ==
    [req EXCEPT ![s] = [Response(req[s].op, req[s].auth, req[s].user_id, 500)
                           EXCEPT !.escaped = TRUE]]

\* Refresh requests that may still insert a row.
PendingInserts ==
    Cardinality({s \in Slots : req[s].op = "refresh" /\ InFlight(s) /\ req[s].pc # "start"})

\* The gate without the capability-flag check.
RefreshGate_NoFetcherCheck(token) ==
    IF token.kind = "missing" THEN 401
    ELSE IF verify_token(token) = NoUser THEN 401
    ELSE IF ~supabase THEN 500
    ELSE 0

\* The checks of refresh_ads that precede its first store call: the
\* response code they return, 0 when all pass.
RefreshGate(token) ==
    IF token.kind = "missing" THEN 401
    ELSE IF verify_token(token) = NoUser THEN 401
    ELSE IF ~FETCHER_AVAILABLE THEN 503
    ELSE IF ~supabase THEN 500
    ELSE 0

\* POST /refresh arrives in slot s.
SendRefresh(s, token, force) ==
    /\ req[s].pc = "idle"
    /\ Cardinality({j \in JobIds : Exists(j)}) + PendingInserts < MaxJobs
    /\ LET user_id == verify_token(token)
           code == RefreshGate(token)
       IN req' = IF code # 0
                 THEN [req EXCEPT ![s] = Response("refresh", token.kind, user_id, code)]
                 ELSE [req EXCEPT ![s] =
                         [op |-> "refresh", auth |-> token.kind,
                          user_id |-> user_id, force |-> force,
                          job |-> 0, pc |-> IF force THEN "create" ELSE "check",
                          code |-> 0, escaped |-> FALSE]]
    /\ UNCHANGED <<config, aux, jobs, bg, active_jobs, lock>>

\* refresh_ads, lines 245-257: the running-job pre-check, which no try
\* block encloses.
RefreshCheck(s) ==
    /\ req[s].op = "refresh" /\ req[s].pc = "check"
    /\ \E ok \in StoreOutcomes :
          req' = IF ~ok THEN Escape(s)
                 ELSE IF HasRunningJob(req[s].user_id) THEN Respond(s, 409)
                 ELSE [req EXCEPT ![s].pc = "create"]
    /\ UNCHANGED <<config, aux, jobs, bg, active_jobs, lock>>

\* refresh_ads, lines 259-264: uuid4 and create_job_record.
RefreshCreate(s) ==
    /\ req[s].op = "refresh" /\ req[s].pc = "create"
    /\ FreshJobId \in JobIds
    /\ \E ok \in StoreOutcomes :
          IF ok
          THEN /\ jobs' = [jobs EXCEPT ![FreshJobId] = NewJobRow(req[s].user_id)]
               /\ req' = [req EXCEPT ![s].pc = "start", ![s].job = FreshJobId]
          ELSE /\ jobs' = jobs
               /\ req' = Respond(s, 500)
    /\ UNCHANGED <<config, aux, bg, active_jobs, lock>>

\* refresh_ads, lines 266-297: the competitor count, thread.start(), 202.
RefreshStart(s) ==
    /\ req[s].op = "refresh" /\ req[s].pc = "start"
    /\ bg' = [bg EXCEPT ![req[s].job].pc = "start"]
    /\ req' = Respond(s, 202)
    /\ UNCHANGED <<config, aux, jobs, active_jobs, lock>>

\* The client has the response; the slot serves the next request.
Return(s) ==
    /\ req[s].pc = "done"
    /\ req' = [req EXCEPT ![s] = IdleReq]
    /\ UNCHANGED <<config, aux, jobs, bg, active_jobs, lock>>

\* The checks of cancel_job that precede its first store call.
CancelGate(token) ==
    IF token.kind = "missing" THEN 401
    ELSE IF verify_token(token) = NoUser THEN 401
    ELSE IF ~supabase THEN 500
    ELSE 0

\* POST /cancel-job/<job_id> arrives in slot s.
SendCancel(s, token, job_id) ==
    /\ req[s].pc = "idle"
    /\ LET code == CancelGate(token)
           user_id == verify_token(token)
       IN req' = IF code # 0
                 THEN [req EXCEPT ![s] = Response("cancel", token.kind, user_id, code)]
                 ELSE [req EXCEPT ![s] =
                         [op |-> "cancel", auth |-> token.kind,
                          user_id |-> user_id, force |-> FALSE,
                          job |-> job_id, pc |-> "read", code |-> 0, escaped |-> FALSE]]
    /\ UNCHANGED <<config, aux, jobs, bg, active_jobs, lock>>

\* The ownership check left out.
OwnsJob_Anyone(row, user_id) == TRUE

\* cancel_job, line 429: the job belongs to the caller.
OwnsJob(row, user_id) == row.user_id = user_id

\* The status check that only excludes completed jobs.
IsCancellable_NotCompleted(status) == status # "completed"

\* cancel_job, line 432: the statuses a cancel request may overwrite.
IsCancellable(status) == status \in {"pending", "running"}

\* cancel_job, lines 419-433: the response decided by the row read, 0 when
\* the handler goes on to the update.
CancelDecision(row, user_id) ==
    IF row = NoRow THEN 404
    ELSE IF ~OwnsJob(row, user_id) THEN 403
    ELSE IF ~IsCancellable(row.status) THEN 400
    ELSE 0

\* cancel_job, lines 419-433: select user_id, status of the job.
CancelRead(s) ==
    /\ req[s].op = "cancel" /\ req[s].pc = "read"
    /\ \E ok \in StoreOutcomes :
          LET code == CancelDecision(jobs[req[s].job], req[s].user_id)
          IN req' = IF ~ok THEN Respond(s, 500)
                    ELSE IF code # 0 THEN Respond(s, code)
                    ELSE [req EXCEPT ![s].pc = "write"]
    /\ UNCHANGED <<config, aux, jobs, bg, active_jobs, lock>>

\* cancel_job, lines 436-450: the unconditional update of the row.
CancelWrite(s) ==
    /\ req[s].op = "cancel" /\ req[s].pc = "write"
    /\ \E ok \in StoreOutcomes :
          IF ok
          THEN /\ jobs' = [jobs EXCEPT ![req[s].job] =
                      IF @ = NoRow THEN @
                      ELSE [@ EXCEPT !.status = "failed",
                                     !.error_message = CancelMsgLen,
                                     !.end_time = TRUE]]
               /\ req' = Respond(s, 200)
          ELSE /\ jobs' = jobs
               /\ req' = Respond(s, 500)
    /\ UNCHANGED <<config, aux, bg, active_jobs, lock>>

\* The checks of get_user_jobs that precede its store call.
UserJobsGate(token) ==
    IF token.kind = "missing" THEN 401
    ELSE IF verify_token(token) = NoUser THEN 401
    ELSE IF ~supabase THEN 500
    ELSE 0

\* GET /user-jobs arrives in slot s.
SendUserJobs(s, token) ==
    /\ req[s].pc = "idle"
    /\ LET code == UserJobsGate(token)
           user_id == verify_token(token)
       IN req' = IF code # 0
                 THEN [req EXCEPT ![s] = Response("user-jobs", token.kind, user_id, code)]
                 ELSE [req EXCEPT ![s] =
                         [op |-> "user-jobs", auth |-> token.kind,
                          user_id |-> user_id, force |-> FALSE,
                          job |-> 0, pc |-> "read", code |-> 0, escaped |-> FALSE]]
    /\ UNCHANGED <<config, aux, jobs, bg, active_jobs, lock>>

\* get_user_jobs, lines 313-359: the select of the user's last jobs.
UserJobsRead(s) ==
    /\ req[s].op = "user-jobs" /\ req[s].pc = "read"
    /\ \E ok \in StoreOutcomes : req' = Respond(s, IF ok THEN 200 ELSE 500)
    /\ UNCHANGED <<config, aux, jobs, bg, active_jobs, lock>>

\* The checks of estimate_time that precede get_user_competitors.
EstimateGate(token) ==
    IF token.kind = "missing" THEN 401
    ELSE IF verify_token(token) = NoUser THEN 401
    ELSE 0

\* POST /estimate-time arrives in slot s.  Without a store client
\* get_user_competitors returns [] at once and the handler answers 200.
SendEstimate(s, token) ==
    /\ req[s].pc = "idle"
    /\ LET code == EstimateGate(token)
           user_id == verify_token(token)
       IN req' = IF code # 0
                 THEN [req EXCEPT ![s] = Response("estimate-time", token.kind, user_id, code)]
                 ELSE IF ~supabase
                 THEN [req EXCEPT ![s] = Response("estimate-time", token.kind, user_id, 200)]
                 ELSE [req EXCEPT ![s] =
                         [op |-> "estimate-time", auth |-> token.kind,
                          user_id |-> user_id, force |-> FALSE,
                          job |-> 0, pc |-> "read", code |-> 0, escaped |-> FALSE]]
    /\ UNCHANGED <<config, aux, jobs, bg, active_jobs, lock>>

\* estimate_time, lines 379-400: get_user_competitors, whose except clause
\* turns a raising store call into [], and the 200 response.
EstimateRead(s) ==
    /\ req[s].op = "estimate-time" /\ req[s].pc = "read"
    /\ \E ok \in StoreOutcomes : req' = Respond(s, 200)
    /\ UNCHANGED <<config, aux, jobs, bg, active_jobs, lock>>

(* ---------- the scraper and AdsFetcher.run_for_user ---------- *)
\* Lengths of the variable part of a message or of stdout + stderr.
TailLens == {0, LogCap}

\* What the environment and the scraper subprocess may do in one call:
\* the environment check fails, subprocess.run times out, it raises, or
\* the subprocess exits with a return code, output of some length and a
\* count that the output patterns extract from it.
ScraperRuns ==
    [kind : {"env_fail", "exception"}, returncode : {0}, tail : TailLens, count : {0}]
    \cup [kind : {"timeout"}, returncode : {0}, tail : {0}, count : {0}]
    \cup [kind : {"exit"}, returncode : {0, 1}, tail : TailLens, count : 0..MaxAds]

\* run_for_user: (success, logs, ads_count) for one scraper run.
run_for_user(run) ==
    CASE run.kind = "env_fail" ->
            [success |-> FALSE, logs |-> EnvFailPrefixLen + run.tail, ads_count |-> 0]
      [] run.kind = "timeout" ->
            [success |-> FALSE, logs |-> TimeoutMsgLen, ads_count |-> 0]
      [] run.kind = "exception" ->
            [success |-> FALSE, logs |-> ErrorPrefixLen + run.tail, ads_count |-> 0]
      [] OTHER ->
            LET success == run.returncode = 0
            IN [success |-> success, logs |-> LogHeaderLen + run.tail,
                ads_count |-> IF success THEN run.count ELSE 0]

\* run_background_fetch, lines 157-162: the result when the fetcher is not
\* available.
DisabledResult == [success |-> FALSE, logs |-> DisabledLogLen, ads_count |-> 0]

(* ---------- the background thread ---------- *)
\* pc: where the thread is; exit0: its scraper subprocess ran and exited
\* with return code 0.
NoThread == [pc |-> "none", exit0 |-> FALSE]

\* A store update ... .eq('job_id', job_id): the fields of update_data
\* overwrite those of the matching row, the others stay.
Merge(row, update_data) ==
    [f \in DOMAIN row |-> IF f \in DOMAIN update_data THEN update_data[f] ELSE row[f]]

StoreUpdate(job_id, update_data) ==
    [jobs EXCEPT ![job_id] = IF @ = NoRow THEN @ ELSE Merge(@, update_data)]

\* The final status that ignores the fetcher's success flag.
FinalStatus_AlwaysCompleted(success) == "completed"

\* The final status that leaves a failed run in status running.
FinalStatus_FailureStaysRunning(success) ==
    IF success THEN "completed" ELSE "running"

\* run_background_fetch, line 167.
FinalStatus(success) == IF success THEN "completed" ELSE "failed"

\* run_background_fetch, lines 174-176: logs as stored.
TruncateLogs(logs) == IF logs > LogCap THEN LogCap + TruncMarkLen ELSE logs

\* run_background_fetch, line 181.
ErrorMsg(logs) == IF logs > ErrCap THEN ErrCap ELSE logs

\* run_background_fetch, lines 165-182: update_data.
ResultUpdate(success, logs, ads_count) ==
    LET keys == {"status", "ads_fetched", "end_time"}
                \cup (IF logs # 0 THEN {"logs"} ELSE {})
                \cup (IF ~success /\ logs # 0 THEN {"error_message"} ELSE {})
    IN [f \in keys |->
          CASE f = "status" -> FinalStatus(success)
            [] f = "ads_fetched" -> ads_count
            [] f = "end_time" -> TRUE
            [] f = "logs" -> TruncateLogs(logs)
            [] OTHER -> ErrorMsg(TruncateLogs(logs))]

\* run_background_fetch, lines 143-150: status := running.
BgSetRunning(j) ==
    /\ bg[j].pc = "start"
    /\ \E ok \in StoreOutcomes :
          IF ~supabase THEN /\ jobs' = jobs
                            /\ bg' = [bg EXCEPT ![j].pc = "done"]
          ELSE IF ok THEN /\ jobs' = StoreUpdate(j, [status |-> "running"])
                          /\ bg' = [bg EXCEPT ![j].pc = "fetch"]
          ELSE /\ jobs' = jobs
               /\ bg' = [bg EXCEPT ![j].pc = "done"]
    /\ UNCHANGED <<config, aux, req, active_jobs, lock>>

\* run_background_fetch, lines 152-194: the blocking call of the fetcher and
\* the final update of the row.  The result of run_for_user depends on
\* nothing that another thread writes (the scraper is started with
\* cwd=ads_fetch_dir), so it is drawn in the step that stores it; what the
\* call does to the working directory of the process is modelled apart.
BgFetchAndWrite(j) ==
    /\ bg[j].pc = "fetch"
    /\ \E run \in ScraperRuns, ok \in StoreOutcomes :
          LET r == IF FETCHER_AVAILABLE THEN run_for_user(run) ELSE DisabledResult
          IN /\ jobs' = IF ok
                        THEN StoreUpdate(j, ResultUpdate(r.success, r.logs, r.ads_count))
                        ELSE jobs
             /\ bg' = [bg EXCEPT ![j] =
                        [pc |-> "done",
                         exit0 |-> /\ FETCHER_AVAILABLE
                                   /\ run.kind = "exit"
                                   /\ run.returncode = 0]]
    /\ UNCHANGED <<config, aux, req, active_jobs, lock>>

(* ---------- StatusManager ---------- *)
\* update_data without the end_time stamp of lines 58-59.
UpdateData_NoStamp(status, kwargs) ==
    LET given == {k \in DOMAIN kwargs : kwargs[k] # None}
    IN [f \in {"status"} \cup given |->
          IF f = "status" THEN status ELSE kwargs[f][1]]

\* update_job_status, lines 47-59: update_data from the status and the
\* keyword arguments that are not None.
UpdateData(status, kwargs) ==
    LET given == {k \in DOMAIN kwargs : kwargs[k] # None}
        keys == {"status"} \cup given
                \cup (IF status \in Terminal THEN {"end_time"} ELSE {})
    IN [f \in keys |->
          IF f = "status" THEN status
          ELSE IF f \in given THEN kwargs[f][1]
          ELSE TRUE]

\* update_job_status: the store update, then the cache under the lock.  A
\* job that is not cached makes the method call get_job_status while it
\* holds the lock, which get_job_status acquires again: threading.Lock is
\* not reentrant, the caller blocks for good and the lock stays held.  A
\* caller that finds the lock held blocks after its store update.
\* ok: the store call executes rather than raises.
update_job_status(job_id, status, kwargs, ok) ==
    IF ~supabase \/ ~ok THEN UNCHANGED <<jobs, active_jobs, lock>>
    ELSE /\ jobs' = StoreUpdate(job_id, UpdateData(status, kwargs))
         /\ IF lock = "held" THEN UNCHANGED <<active_jobs, lock>>
            ELSE IF active_jobs[job_id] # NoRow
            THEN /\ active_jobs' =
                      [active_jobs EXCEPT
                         ![job_id] = Merge(@, UpdateData(status, kwargs))]
                 /\ lock' = lock
            ELSE /\ lock' = "held"
                 /\ active_jobs' = active_jobs

\* What the caller of update_job_status gets: False without a store client
\* or when the store call raises, True after the cache update, nothing
\* ("blocked") when the thread waits for the lock for good.
UpdateReturn(job_id, ok) ==
    IF ~supabase \/ ~ok THEN "False"
    ELSE IF lock = "held" \/ active_jobs[job_id] = NoRow THEN "blocked"
    ELSE "True"

\* The owner of the StatusManager calls update_job_status next to the
\* running web service.
OwnerUpdate(job_id, status, kwargs) ==
    /\ supabase
    /\ \E ok \in StoreOutcomes : update_job_status(job_id, status, kwargs, ok)
    /\ UNCHANGED <<config, aux, bg, req>>

\* mark_job_as_stuck, lines 490-495.
MarkJobAsStuck(j) ==
    OwnerUpdate(j, "failed",
                [error_message |-> <<StuckMsgLen>>, end_time |-> <<TRUE>>])

\* The rest of the program as the StatusManager sees it.
smFrame == <<FETCHER_AVAILABLE, storeFaulty, supabase, bg, req, environ,
             middleware, issued, cwd, fetches, competitors, creq, users, sreq>>

\* Keyword arguments a caller passes to update_job_status; the last are
\* those of mark_job_as_stuck.
Kwargs ==
    {<<>>, [ads_fetched |-> <<MaxAds>>, error_message |-> None],
     [error_message |-> <<StuckMsgLen>>, end_time |-> <<TRUE>>]}

\* A thread calls update_job_status.
UpdateJobStatus(job_id, status, kwargs) ==
    /\ \E ok \in StoreOutcomes :
          /\ update_job_status(job_id, status, kwargs, ok)
          /\ call' = [fn |-> "update_job_status", job_id |-> job_id,
                      ret |-> UpdateReturn(job_id, ok)]
    /\ UNCHANGED <<smFrame, updates, overlapped>>

\* job_data that enters the table with status running.
RegisteredRow_Running(user_id) ==
    [user_id |-> user_id, status |-> "running", ads_fetched |-> 0,
     end_time |-> FALSE, error_message |-> 0, logs |-> 0]

\* register_job, lines 183-193: job_data.
RegisteredRow(user_id) ==
    [user_id |-> user_id, status |-> "pending", ads_fetched |-> 0,
     end_time |-> FALSE, error_message |-> 0, logs |-> 0]

\* register_job that goes on to the insert after a failed count.
RegisterStored_IgnoresCount(counted, ok) == supabase /\ ok

\* register_job, lines 170-204: the try block reaches the cache update, as
\* neither the competitor count (counted) nor the insert (ok) raised.
RegisterStored(counted, ok) == supabase /\ counted /\ ok

\* A thread calls register_job with a fresh job id: the competitor count,
\* the insert, then the cache entry under the lock.  raised: a store call
\* of this call raised.
RegisterJob(job_id, user_id) ==
    /\ ~Exists(job_id)
    /\ \E counted \in StoreOutcomes, ok \in StoreOutcomes :
          LET Returned(ret) ==
                  [fn |-> "register_job", job_id |-> job_id, ret |-> ret,
                   raised |-> supabase /\ (~counted \/ ~ok)]
          IN IF ~RegisterStored(counted, ok)
             THEN /\ UNCHANGED <<jobs, active_jobs, lock>>
                  /\ call' = Returned("False")
             ELSE /\ jobs' = [jobs EXCEPT ![job_id] = RegisteredRow(user_id)]
                  /\ lock' = lock
                  /\ IF lock = "held"
                     THEN /\ active_jobs' = active_jobs
                          /\ call' = Returned("blocked")
                     ELSE /\ active_jobs' =
                               [active_jobs EXCEPT ![job_id] = RegisteredRow(user_id)]
                          /\ call' = Returned("True")
    /\ UNCHANGED <<smFrame, updates, overlapped>>

\* get_job_status that asks the store first.
CacheHit_Never(job_id) == FALSE

\* get_job_status, lines 93-95: the job is in the cache.
CacheHit(job_id) == active_jobs[job_id] # NoRow

\* A thread calls get_job_status and gets the lock: the cached entry, or
\* the store row, which it caches.  row is the value returned (NoRow for
\* None), queried whether the store was asked, after the call before it.
GetJobStatus(job_id) ==
    /\ lock = "free"
    /\ LET cached == CacheHit(job_id)
           Returned(row, queried) ==
               [fn |-> "get_job_status", job_id |-> job_id, row |-> row,
                queried |-> queried, after |-> call.fn,
                same |-> call.fn # "none" /\ call.job_id = job_id]
       IN IF cached
          THEN /\ call' = Returned(active_jobs[job_id], FALSE)
               /\ active_jobs' = active_jobs
          ELSE IF ~supabase
          THEN /\ call' = Returned(NoRow, FALSE)
               /\ active_jobs' = active_jobs
          ELSE \E ok \in StoreOutcomes :
                  IF ok
                  THEN /\ call' = Returned(jobs[job_id], TRUE)
                       /\ active_jobs' = [active_jobs EXCEPT ![job_id] = jobs[job_id]]
                  ELSE /\ call' = Returned(NoRow, TRUE)
                       /\ active_jobs' = active_jobs
    /\ UNCHANGED <<jobs, lock>>
    /\ UNCHANGED <<smFrame, updates, overlapped>>

\* The web service writes the row without the StatusManager: the first
\* update of run_background_fetch.
ServiceSetsRunning(job_id) ==
    /\ supabase /\ Exists(job_id)
    /\ jobs' = StoreUpdate(job_id, [status |-> "running"])
    /\ UNCHANGED <<active_jobs, lock, call>>
    /\ UNCHANGED <<smFrame, updates, overlapped>>

(* ---------- jobs as displayed ---------- *)
NoCall == [fn |-> "none"]

\* An optional value: None or <<v>>.
Opt(S) == {None} \cup {<<v>> : v \in S}

\* Durations and elapsed times in seconds, around the limits of the code.
Durations == {0, 45, 59, 60, 125, 3599, 3600, 3700}
ElapsedTimes == {0, 15, 30, 90, 120, 240, 299, 300, 1000}
Platforms == {"all", "meta"}

\* A job dictionary handed to a formatter: duration_seconds as stored,
\* start_time as the seconds from it to now, end_time as the seconds from
\* start_time to it.
DisplayJobs ==
    [status : Statuses \cup {"unknown"}, duration_seconds : Opt(Durations),
     start_time : Opt(ElapsedTimes), end_time : Opt({0, 45}),
     total_competitors : 0..MaxCompetitors, platform : Platforms]

\* A formatted duration: the f-string used and the numbers it shows.
Text(fmt, a, b) == [fmt |-> fmt, a |-> a, b |-> b]

\* Python's truth value of an optional number: None and 0 are false.
Truthy(x) == x # None /\ x[1] # 0

\* format_job_for_display, lines 418-431, for a duration that is None or
\* a number.
FormatDuration(duration) ==
    IF Truthy(duration)
    THEN LET d == duration[1]
         IN IF d < 60 THEN Text("{}s", d, 0)
            ELSE IF d < 3600 THEN Text("{}m {}s", d \div 60, d % 60)
            ELSE Text("{}h {}m", d \div 3600, (d % 3600) \div 60)
    ELSE Text("N/A", 0, 0)

\* get_user_jobs, lines 333-347.
UserJobsDuration(duration) ==
    IF Truthy(duration)
    THEN LET d == duration[1]
         IN IF d < 60 THEN Text("{}s", d, 0)
            ELSE IF d < 3600 THEN Text("{}m {}s", d \div 60, d % 60)
            ELSE Text("{}h {}m", d \div 3600, (d % 3600) \div 60)
    ELSE Text("N/A", 0, 0)

\* format_job_for_display, lines 411-416: duration_seconds, computed from
\* the timestamps when it is missing or 0.
DisplayDuration(job) ==
    IF ~Truthy(job.duration_seconds) /\ job.end_time # None /\ job.start_time # None
    THEN job.end_time
    ELSE job.duration_seconds

\* format_job_for_display, lines 449-458.
EstimatedTotal(job) ==
    LET platforms_count == IF job.platform = "all" THEN AllPlatformsCount ELSE 1
        estimated_total == job.total_competitors * SecondsPerCompetitor * platforms_count
    IN IF estimated_total < EstimateCap THEN estimated_total ELSE EstimateCap

\* n / d rounded to the nearest integer, ties to even: round(x, 1) on the
\* tenths of a percent.
RoundHalfEven(n, d) ==
    LET q == n \div d
        r == n % d
    IN IF 2 * r < d THEN q
       ELSE IF 2 * r > d THEN q + 1
       ELSE IF q % 2 = 0 THEN q ELSE q + 1

\* The progress of a running job without the cap.
RunningProgress_Uncapped(elapsed, estimated_total) ==
    IF estimated_total > 0 THEN RoundHalfEven(elapsed * 1000, estimated_total)
    ELSE 500

\* format_job_for_display, lines 460-464: the progress of a running job in
\* tenths of a percent.
RunningProgress(elapsed, estimated_total) ==
    IF estimated_total > 0
    THEN LET progress == RoundHalfEven(elapsed * 1000, estimated_total)
         IN IF progress > ProgressCap * 10 THEN ProgressCap * 10 ELSE progress
    ELSE 500

\* format_job_for_display, lines 433-469: progress in tenths of a percent.
Progress(job) ==
    IF job.status = "completed" THEN 1000
    ELSE IF job.status = "running" /\ job.start_time # None
    THEN RunningProgress(job.start_time[1], EstimatedTotal(job))
    ELSE 0

\* lines 400-407 (get_user_jobs, lines 327-330): the status glyph, by name.
StatusIcon(status) ==
    CASE status = "completed" -> "check"
      [] status = "running" -> "arrows"
      [] status = "failed" -> "cross"
      [] status = "pending" -> "hourglass"
      [] OTHER -> "question"

format_job_for_display(job) ==
    [status_icon |-> StatusIcon(job.status),
     duration_formatted |-> FormatDuration(DisplayDuration(job)),
     progress |-> Progress(job)]

\* A caller formats a job for display.
FormatJobForDisplay(job) ==
    /\ call' = [fn |-> "format_job_for_display", job |-> job,
                out |-> format_job_for_display(job)]
    /\ UNCHANGED <<config, jobs, bg, req, active_jobs, lock, environ, middleware,
                   issued, others>>

\* get_user_jobs formats one row of its answer.
UserJobsFormat(job) ==
    /\ call' = [fn |-> "get_user_jobs", job |-> job,
                out |-> [status_icon |-> StatusIcon(job.status),
                         duration_formatted |-> UserJobsDuration(job.duration_seconds)]]
    /\ UNCHANGED <<config, jobs, bg, req, active_jobs, lock, environ, middleware,
                   issued, others>>

(* ---------- the ads count in the scraper output ---------- *)
\* The patterns of run_for_user in list order: fetched N ads, ads_fetched:
\* N, Found N ads, Total ads: N, saved N ads, processed N ads.
Patterns == 1..6

\* The lines of stdout that matter: one that pattern p matches capturing
\* n, a JSON array of len elements, or text with n occurrences of the
\* substrings 'ad ', 'Ad ' or '"ad"'.
OutputLines ==
    [kind : {"match"}, pattern : Patterns, n : {0, 8, 12}]
    \cup [kind : {"json"}, pattern : {0}, n : {0, 2}]
    \cup [kind : {"words"}, pattern : {0}, n : {1, 60}]

Outputs == UNION {[1..len -> OutputLines] : len \in 0..MaxLines}

Max(S) == CHOOSE x \in S : \A y \in S : y <= x

\* re.findall(pattern, stdout + stderr, re.IGNORECASE), as integers.
FindAll(pattern, output) ==
    {output[i].n : i \in {k \in DOMAIN output :
                             output[k].kind = "match" /\ output[k].pattern = pattern}}

\* lines 234-243: the maximum of the first pattern that matches, else 0.
PatternCount(output) ==
    LET matching == {p \in Patterns : FindAll(p, output) # {}}
    IN IF matching = {} THEN 0
       ELSE Max(FindAll(CHOOSE p \in matching : \A q \in matching : p <= q, output))

\* lines 249-256: json.loads of stdout from the first '[' to the last ']',
\* which parses when the output holds exactly one array.
JsonCount(output) ==
    LET arrays == {i \in DOMAIN output : output[i].kind = "json"}
    IN IF Cardinality(arrays) = 1 THEN output[CHOOSE i \in arrays : TRUE].n ELSE 0

RECURSIVE WordCount(_, _)
\* line 260: the occurrences of the three substrings in the first i lines.
WordCount(output, i) ==
    IF i = 0 THEN 0
    ELSE WordCount(output, i - 1)
         + (IF output[i].kind = "words" THEN output[i].n ELSE 0)

\* run_for_user, lines 220-261: ads_count of a run that exited with 0.
AdsCount(output) ==
    LET by_pattern == PatternCount(output)
        by_json == IF by_pattern = 0 /\ JsonCount(output) # 0
                   THEN JsonCount(output) ELSE by_pattern
        words == WordCount(output, Len(output))
    IN IF by_json = 0
       THEN (IF words < EstimateMax THEN words ELSE EstimateMax)
       ELSE by_json

\* run_for_user parses the output of a successful run.
ParseOutput(output) ==
    /\ call' = [fn |-> "run_for_user", output |-> output,
                ads_count |-> AdsCount(output)]
    /\ UNCHANGED <<config, jobs, bg, req, active_jobs, lock, environ, middleware,
                   issued, others>>

(* ---------- StatusManager.get_stuck_jobs ---------- *)
\* The ads_fetch_jobs rows as the stuck-job query sees them: age is the
\* minutes since start_time, around the thresholds 30 (the default) and 60.
StuckRows == [JobIds -> [status : Statuses, age : {0, 29, 30, 31, 90}]]

\* What line 511 can look up in the module time, imported at line 6:
\* timedelta is a class of the module datetime, of which line 4 imports
\* only datetime and timezone.
TimeAttributes == {"time", "sleep", "monotonic"}

\* get_stuck_jobs, lines 507-524: the job ids returned.  time.timedelta
\* raises AttributeError inside the try block, and the except clause of
\* line 522 returns [] before the query is built.
get_stuck_jobs(rows, max_minutes, ok) ==
    IF ~supabase THEN {}
    ELSE IF "timedelta" \notin TimeAttributes THEN {}
    ELSE IF ~ok THEN {}
    ELSE {j \in DOMAIN rows : rows[j].status = "running" /\ rows[j].age > max_minutes}

\* The owner of the StatusManager asks for the stuck jobs.
GetStuckJobs(rows, max_minutes) ==
    /\ \E ok \in StoreOutcomes :
          call' = [fn |-> "get_stuck_jobs", rows |-> rows,
                   max_minutes |-> max_minutes, ok |-> ok,
                   ret |-> get_stuck_jobs(rows, max_minutes, ok)]
    /\ UNCHANGED <<config, jobs, bg, req, active_jobs, lock, environ, middleware,
                   issued, others>>

(* ---------- the audience insights of targeting_intel.py ---------- *)
\* The data of a response: whether it holds canned values, whether it holds
\* numbers drawn with random, and whether it carries is_default_data = true.
InsightsData(canned, random, is_default_data) ==
    [canned |-> canned, random |-> random, is_default_data |-> is_default_data]

\* lines 347-409: literal values only, and the flag.
generate_default_audience_insights == InsightsData(TRUE, FALSE, TRUE)

\* get_audience_insights, lines 117-128: generate_demographics draws every
\* number with random.randint, whatever its argument; the primary audiences
\* are literal without industries, the keywords, interests and patterns
\* without ads; the dictionary has no is_default_data key.
insights(industries, ads) == InsightsData(~industries \/ ads = 0, TRUE, FALSE)

\* get_audience_insights, lines 71-146: the status code and the data for a
\* user with so many active competitors, some or none of them with an
\* industry, and so many ads rows.  ok: no store call raises.
get_audience_insights(active, industries, ads, ok) ==
    IF ~supabase THEN [code |-> 500, data |-> None]
    ELSE IF ~ok THEN [code |-> 200, data |-> <<generate_default_audience_insights>>]
    ELSE IF active = 0
    THEN [code |-> 200, data |-> <<generate_default_audience_insights>>]
    ELSE [code |-> 200, data |-> <<insights(industries, ads)>>]

\* GET /audience-insights with a valid token.
GetAudienceInsights(active, industries, ads) ==
    /\ \E ok \in StoreOutcomes :
          call' = [fn |-> "audience-insights", active |-> active,
                   out |-> get_audience_insights(active, industries, ads, ok)]
    /\ UNCHANGED <<config, jobs, bg, req, active_jobs, lock, environ, middleware,
                   issued, others>>

(* ---------- token issuance and verification ---------- *)
EnvKey == "env-secret"                  \* a SECRET_KEY set in the environment
GeneratedKey == "token_urlsafe"         \* auth.py:17  secrets.token_urlsafe(32)
ConfigDefaultKey == "your-super-secret-jwt-key-change-in-production"
FallbackKey == "fallback-secret-key"    \* daily_metrics.py:37
ForgedKey == "forged"                   \* a key no module uses

EnvValues == {"unset", "", EnvKey}

\* auth.py, line 17: os.environ.get('SECRET_KEY') or secrets.token_urlsafe(32).
AuthSecret ==
    IF environ \in {"unset", ""} THEN GeneratedKey ELSE environ

\* config.py, line 13: os.getenv('SECRET_KEY', default).
ConfigSecret ==
    IF environ = "unset" THEN ConfigDefaultKey ELSE environ

\* daily_metrics.py, line 37 and targeting_intel.py, line 39: the secret of
\* the fallback decorator.
FallbackSecret ==
    IF environ = "unset" THEN FallbackKey ELSE environ

\* The routes that verify a token, by the module that serves them.
AuthRoutes == {"verify", "complete-onboarding", "profile"}
RefreshRoutes == {"refresh", "user-jobs", "estimate-time", "cancel-job"}
CompetitorRoutes == {"competitors"}
TargetingRoutes == {"audience-insights", "competitive-analysis", "recommendations"}
Routes == AuthRoutes \cup RefreshRoutes \cup CompetitorRoutes \cup TargetingRoutes

\* The middleware package is not part of the sources; where it imports, its
\* decorator verifies against the shared secret of the design, the one
\* tokens are issued with.
MiddlewareSecret == AuthSecret

\* The secret a route's verifier passes to jwt.decode.
VerifierSecret(route) ==
    IF route \in AuthRoutes THEN AuthSecret
    ELSE IF route \in RefreshRoutes THEN ConfigSecret
    ELSE IF middleware THEN MiddlewareSecret
    ELSE FallbackSecret

\* A signed token: the payload's user id, the key of its signature, and
\* whether its exp claim has passed.
SignedTokens == [user_id : Users, key : {EnvKey, "", GeneratedKey, ForgedKey},
                 expired : BOOLEAN]

\* jwt.encode of signup (lines 186-195) and login (lines 396-405).
IssueToken(user_id) == [user_id |-> user_id, key |-> AuthSecret, expired |-> FALSE]

\* jwt.decode(token, secret, algorithms=['HS256']) succeeds.
Decodes(token, secret) == token.key = secret /\ ~token.expired

\* signup or login answers with a token for the user.
AuthIssue(fn, user_id) ==
    /\ issued' = issued \cup {IssueToken(user_id)}
    /\ call' = [fn |-> fn, token |-> IssueToken(user_id), accepted |-> TRUE]
    /\ UNCHANGED <<config, jobs, bg, req, active_jobs, lock, environ, middleware,
                   others>>

\* Thirty days pass for a token that was handed out.
AuthExpire(token) ==
    /\ token \in issued /\ ~token.expired
    /\ issued' = (issued \ {token}) \cup {[token EXCEPT !.expired = TRUE]}
    /\ call' = NoCall
    /\ UNCHANGED <<config, jobs, bg, req, active_jobs, lock, environ, middleware,
                   others>>

\* A request to a token-protected route presents a token.
AuthVerify(route, token) ==
    /\ call' = [fn |-> route, token |-> token,
                accepted |-> Decodes(token, VerifierSecret(route))]
    /\ UNCHANGED <<config, jobs, bg, req, active_jobs, lock, environ, middleware,
                   issued, others>>

(* ---------- StatusManager calls of several threads ---------- *)
\* Some thread is inside an update_job_status or get_job_status call for
\* the job.
UnderWay(job_id) ==
    \E t \in Clients : updates[t] # NoCall /\ updates[t].job_id = job_id

\* update_job_status, lines 42-64, in thread t: the store update.  A call
\* without a store client or whose store call raises returns False and
\* leaves no trace.
UpdateStore(t, job_id, status) ==
    /\ updates[t] = NoCall /\ supabase
    /\ \E ok \in StoreOutcomes :
          IF ok
          THEN /\ jobs' = StoreUpdate(job_id, UpdateData(status, <<>>))
               /\ updates' = [updates EXCEPT ![t] =
                                [fn |-> "update_job_status", job_id |-> job_id,
                                 status |-> status, pc |-> "cache"]]
               /\ overlapped' = [overlapped EXCEPT ![job_id] = @ \/ UnderWay(job_id)]
          ELSE UNCHANGED <<jobs, updates, overlapped>>
    /\ UNCHANGED <<smFrame, call, active_jobs, lock>>

\* update_job_status that returns without touching the cache.
UpdateCache_Skips(t) ==
    /\ updates[t].fn = "update_job_status" /\ updates[t].pc = "cache"
    /\ lock = "free"
    /\ updates' = [updates EXCEPT ![t] = NoCall]
    /\ UNCHANGED <<smFrame, call, jobs, overlapped, active_jobs, lock>>

\* update_job_status, lines 66-77, in thread t: with the lock, the cached
\* entry takes the update and the call returns True; for a job that is not
\* cached the thread calls get_job_status and waits for its own lock.
UpdateCache(t) ==
    /\ updates[t].fn = "update_job_status" /\ updates[t].pc = "cache"
    /\ lock = "free"
    /\ LET job_id == updates[t].job_id
       IN IF active_jobs[job_id] # NoRow
          THEN /\ active_jobs' =
                    [active_jobs EXCEPT
                       ![job_id] = Merge(@, UpdateData(updates[t].status, <<>>))]
               /\ updates' = [updates EXCEPT ![t] = NoCall]
               /\ lock' = lock
          ELSE /\ lock' = "held"
               /\ updates' = [updates EXCEPT ![t].pc = "blocked"]
               /\ active_jobs' = active_jobs
    /\ UNCHANGED <<smFrame, call, jobs, overlapped>>

\* get_job_status, lines 92-100, in thread t: the job is not cached and the
\* thread goes on to the store.  (A cached job is answered at once.)
GetCheck(t, job_id) ==
    /\ updates[t] = NoCall /\ lock = "free"
    /\ ~CacheHit(job_id) /\ supabase
    /\ updates' = [updates EXCEPT ![t] =
                     [fn |-> "get_job_status", job_id |-> job_id,
                      row |-> NoRow, pc |-> "query"]]
    /\ overlapped' = [overlapped EXCEPT ![job_id] = @ \/ UnderWay(job_id)]
    /\ UNCHANGED <<smFrame, call, jobs, active_jobs, lock>>

\* get_job_status, lines 102-109 and 123-127: the select; None is returned
\* when it raises or finds no row.
GetQuery(t) ==
    /\ updates[t].fn = "get_job_status" /\ updates[t].pc = "query"
    /\ \E ok \in StoreOutcomes :
          updates' = [updates EXCEPT ![t] =
                        IF ok /\ Exists(updates[t].job_id)
                        THEN [@ EXCEPT !.row = jobs[updates[t].job_id], !.pc = "cache"]
                        ELSE NoCall]
    /\ UNCHANGED <<smFrame, call, jobs, active_jobs, lock, overlapped>>

\* get_job_status, lines 119-122: the row read becomes the cached entry.
GetCache(t) ==
    /\ updates[t].fn = "get_job_status" /\ updates[t].pc = "cache"
    /\ lock = "free"
    /\ active_jobs' = [active_jobs EXCEPT ![updates[t].job_id] = updates[t].row]
    /\ updates' = [updates EXCEPT ![t] = NoCall]
    /\ UNCHANGED <<smFrame, call, jobs, lock, overlapped>>

(* ---------- run_for_user and the working directory ---------- *)
\* run_for_user, line 145, in thread t, after verify_environment passed:
\* original_dir = os.getcwd().
FetchSaveDir(t) ==
    /\ fetches[t] = NoCall
    /\ fetches' = [fetches EXCEPT ![t] =
                     [fn |-> "run_for_user", original_dir |-> cwd, pc |-> "chdir"]]
    /\ UNCHANGED <<config, jobs, bg, req, active_jobs, lock, environ, middleware,
                   issued, call, updates, overlapped, cwd, competitors, creq,
                   users, sreq>>

\* run_for_user, line 149: os.chdir(self.ads_fetch_dir), which raises if
\* the directory is missing; the scraper run follows.
FetchChdir(t) ==
    /\ fetches[t] # NoCall /\ fetches[t].pc = "chdir"
    /\ \E ok \in BOOLEAN : cwd' = IF ok THEN "ads_fetch_dir" ELSE cwd
    /\ fetches' = [fetches EXCEPT ![t].pc = "run"]
    /\ UNCHANGED <<config, jobs, bg, req, active_jobs, lock, environ, middleware,
                   issued, call, updates, overlapped, competitors, creq, users,
                   sreq>>

\* run_for_user, lines 280-283: the finally clause, os.chdir(original_dir),
\* and the return.
FetchFinally(t) ==
    /\ fetches[t] # NoCall /\ fetches[t].pc = "run"
    /\ cwd' = fetches[t].original_dir
    /\ fetches' = [fetches EXCEPT ![t] = NoCall]
    /\ UNCHANGED <<config, jobs, bg, req, active_jobs, lock, environ, middleware,
                   issued, call, updates, overlapped, competitors, creq, users,
                   sreq>>

(* ---------- the competitor routes of daily_metrics.py ---------- *)
\* str.strip() on the names a client may send: empty, blank, a name with
\* and without surrounding blanks, another name.
Strip(raw) ==
    CASE raw = " " -> ""
      [] raw = " a " -> "a"
      [] OTHER -> raw

\* The row .eq("id", competitor_id).eq("user_id", user_id) matches without
\* a look at is_active.
FindOwned_Inactive(id, user_id) ==
    id \in DOMAIN competitors /\ competitors[id].user_id = user_id

\* delete_competitor, lines 199-204, and update_competitor, lines 256-261:
\* the select by id, user_id and is_active finds a row.
FindOwned(id, user_id) ==
    /\ id \in DOMAIN competitors
    /\ competitors[id].user_id = user_id
    /\ competitors[id].is_active

\* The handler of client c returns.
CompRespond(c, code, data) ==
    [creq EXCEPT ![c] = [fn |-> creq[c].fn, user_id |-> creq[c].user_id,
                         id |-> creq[c].id, pc |-> "done", code |-> code,
                         data |-> data]]

\* What the competitor handlers leave alone.
compFrame == <<config, jobs, bg, req, active_jobs, lock, environ, middleware,
               issued, call, updates, overlapped, cwd, fetches, users, sreq>>

\* POST / (add), DELETE /<id> or PUT /<id> (update) arrives from client c
\* with the token of user_id: the checks before the first store call.  The
\* name is stripped here (lines 118 and 270); an update carries a name.
SendCompetitor(c, fn, user_id, id, raw) ==
    /\ creq[c] = NoCall
    /\ creq' = [creq EXCEPT ![c] =
                  IF ~supabase
                  THEN [fn |-> fn, user_id |-> user_id, id |-> id, pc |-> "done",
                        code |-> 500, data |-> {}]
                  ELSE IF fn = "add" /\ Strip(raw) = ""
                  THEN [fn |-> fn, user_id |-> user_id, id |-> id, pc |-> "done",
                        code |-> 400, data |-> {}]
                  ELSE [fn |-> fn, user_id |-> user_id, id |-> id,
                        name |-> Strip(raw), pc |-> "check"]]
    /\ UNCHANGED <<compFrame, competitors>>

\* add_competitor, lines 131-144: the select of the user's active rows of
\* that name.
AddCheck(c) ==
    /\ creq[c].fn = "add" /\ creq[c].pc = "check"
    /\ \E ok \in StoreOutcomes :
          LET existing == {i \in DOMAIN competitors :
                              /\ competitors[i].user_id = creq[c].user_id
                              /\ competitors[i].name = creq[c].name
                              /\ competitors[i].is_active}
          IN creq' = IF ~ok THEN CompRespond(c, 500, {})
                     ELSE IF existing # {} THEN CompRespond(c, 409, {})
                     ELSE [creq EXCEPT ![c].pc = "write"]
    /\ UNCHANGED <<compFrame, competitors>>

\* add_competitor, lines 146-177: the insert.
AddInsert(c) ==
    /\ creq[c].fn = "add" /\ creq[c].pc = "write"
    /\ \E ok \in StoreOutcomes :
          IF ok
          THEN /\ competitors' = Append(competitors,
                                        [user_id |-> creq[c].user_id,
                                         name |-> creq[c].name, is_active |-> TRUE])
               /\ creq' = CompRespond(c, 201, {})
          ELSE /\ competitors' = competitors
               /\ creq' = CompRespond(c, 500, {})
    /\ UNCHANGED compFrame

\* delete_competitor, lines 198-210, and update_competitor, lines 255-267:
\* the competitor is an active one of the caller, or 404.
OwnedCheck(c) ==
    /\ creq[c].fn \in {"delete", "update"} /\ creq[c].pc = "check"
    /\ \E ok \in StoreOutcomes :
          creq' = IF ~ok THEN CompRespond(c, 500, {})
                  ELSE IF ~FindOwned(creq[c].id, creq[c].user_id)
                  THEN CompRespond(c, 404, {})
                  ELSE [creq EXCEPT ![c].pc = "write"]
    /\ UNCHANGED <<compFrame, competitors>>

\* delete_competitor, lines 214-232: is_active := False where id and
\* user_id match.
DeleteWrite(c) ==
    /\ creq[c].fn = "delete" /\ creq[c].pc = "write"
    /\ \E ok \in StoreOutcomes :
          IF ok
          THEN /\ competitors' = [competitors EXCEPT ![creq[c].id].is_active = FALSE]
               /\ creq' = CompRespond(c, 200, {})
          ELSE /\ competitors' = competitors
               /\ creq' = CompRespond(c, 500, {})
    /\ UNCHANGED compFrame

\* update_competitor, lines 269-305: the new name where id and user_id
\* match.
UpdateWrite(c) ==
    /\ creq[c].fn = "update" /\ creq[c].pc = "write"
    /\ \E ok \in StoreOutcomes :
          IF ok
          THEN /\ competitors' = [competitors EXCEPT ![creq[c].id].name = creq[c].name]
               /\ creq' = CompRespond(c, 200, {})
          ELSE /\ competitors' = competitors
               /\ creq' = CompRespond(c, 500, {})
    /\ UNCHANGED compFrame

\* get_user_competitors, lines 69-105: GET / answers with the ids of the
\* user's active rows.
ListCompetitors(c, user_id) ==
    /\ creq[c] = NoCall
    /\ \E ok \in StoreOutcomes :
          LET data == {i \in DOMAIN competitors :
                          competitors[i].user_id = user_id /\ competitors[i].is_active}
              Answer(code, d) == [fn |-> "list", user_id |-> user_id, id |-> 0,
                                  pc |-> "done", code |-> code, data |-> d]
          IN creq' = [creq EXCEPT ![c] =
                        IF ~supabase \/ ~ok THEN Answer(500, {}) ELSE Answer(200, data)]
    /\ UNCHANGED <<compFrame, competitors>>

\* The client has the response.
CompReturn(c) ==
    /\ creq[c] # NoCall /\ creq[c].pc = "done"
    /\ creq' = [creq EXCEPT ![c] = NoCall]
    /\ UNCHANGED <<compFrame, competitors>>

(* ---------- signup of auth.py ---------- *)
\* email.lower().strip(), line 151, on the addresses a client may send.
Normalize(email) ==
    CASE email = "A@x.io " -> "a@x.io"
      [] email = " a@x.io" -> "a@x.io"
      [] OTHER -> email

\* POST /signup arrives from client c: lines 110-148, the checks before the
\* first store call.  valid: all four fields are present (the email is
\* not empty), the passwords match and have 8 characters or more.
SendSignup(c, email, valid) ==
    /\ sreq[c] = NoCall
    /\ sreq' = [sreq EXCEPT ![c] =
                  IF ~supabase
                  THEN [fn |-> "signup", email |-> email, pc |-> "done", code |-> 500]
                  ELSE IF ~valid
                  THEN [fn |-> "signup", email |-> email, pc |-> "done", code |-> 400]
                  ELSE [fn |-> "signup", email |-> Normalize(email), pc |-> "check",
                        code |-> 0]]
    /\ UNCHANGED <<config, jobs, bg, req, active_jobs, lock, environ, middleware,
                   issued, call, updates, overlapped, cwd, fetches, competitors,
                   creq, users>>

\* signup, lines 153-165: the select of the rows with that email.
SignupCheck(c) ==
    /\ sreq[c].fn = "signup" /\ sreq[c].pc = "check"
    /\ \E ok \in StoreOutcomes :
          sreq' = [sreq EXCEPT ![c] =
                     IF ~ok THEN [@ EXCEPT !.pc = "done", !.code = 500]
                     ELSE IF \E i \in DOMAIN users : users[i] = sreq[c].email
                     THEN [@ EXCEPT !.pc = "done", !.code = 409]
                     ELSE [@ EXCEPT !.pc = "write"]]
    /\ UNCHANGED <<config, jobs, bg, req, active_jobs, lock, environ, middleware,
                   issued, call, updates, overlapped, cwd, fetches, competitors,
                   creq, users>>

\* signup, lines 167-208: the insert, the token and 201.
SignupInsert(c) ==
    /\ sreq[c].fn = "signup" /\ sreq[c].pc = "write"
    /\ \E ok \in StoreOutcomes :
          IF ok
          THEN /\ users' = Append(users, sreq[c].email)
               /\ sreq' = [sreq EXCEPT ![c].pc = "done", ![c].code = 201]
          ELSE /\ users' = users
               /\ sreq' = [sreq EXCEPT ![c].pc = "done", ![c].code = 500]
    /\ UNCHANGED <<config, jobs, bg, req, active_jobs, lock, environ, middleware,
                   issued, call, updates, overlapped, cwd, fetches, competitors,
                   creq>>

\* No StatusManager call, fetch, competitor request or signup under way, the
\* process in the directory it was started in, the two tables empty.
OthersIdle ==
    /\ updates = [t \in Clients |-> NoCall]
    /\ overlapped = [j \in JobIds |-> FALSE]
    /\ cwd = "start"
    /\ fetches = [t \in Fetchers |-> NoCall]
    /\ competitors = <<>>
    /\ creq = [c \in Clients |-> NoCall]
    /\ users = <<>>
    /\ sreq = [c \in Clients |-> NoCall]

\* The state of the parts the web-service model leaves alone.
AuxIdle ==
    /\ environ = EnvKey
    /\ middleware = FALSE
    /\ issued = {}
    /\ call = NoCall
    /\ OthersIdle

WebIdle ==
    /\ FETCHER_AVAILABLE = TRUE
    /\ supabase = TRUE
    /\ storeFaulty = FALSE
    /\ jobs = [j \in JobIds |-> NoRow]
    /\ bg = [j \in JobIds |-> NoThread]
    /\ req = [s \in Slots |-> IdleReq]
    /\ active_jobs = [j \in JobIds |-> NoRow]
    /\ lock = "free"

\* A StatusManager after __init__: empty cache, free lock.
SmInit ==
    /\ FETCHER_AVAILABLE = TRUE
    /\ supabase \in BOOLEAN
    /\ storeFaulty \in BOOLEAN
    /\ jobs = [j \in JobIds |-> NoRow]
    /\ bg = [j \in JobIds |-> NoThread]
    /\ req = [s \in Slots |-> IdleReq]
    /\ active_jobs = [j \in JobIds |-> NoRow]
    /\ lock = "free"
    /\ AuxIdle

DisplayInit == WebIdle /\ AuxIdle

\* One formatting call per behaviour: the formatters keep no state.
DisplayNext ==
    \/ call = NoCall /\ \E job \in DisplayJobs : FormatJobForDisplay(job)
    \/ call = NoCall /\ \E job \in DisplayJobs : UserJobsFormat(job)

DisplaySpec == DisplayInit /\ [][DisplayNext]_vars

ParseInit == WebIdle /\ AuxIdle

\* One parse per behaviour: the parser keeps no state.
ParseNext ==
    call = NoCall /\ \E output \in Outputs : ParseOutput(output)

ParseSpec == ParseInit /\ [][ParseNext]_vars

\* One call per behaviour of the functions that keep no state.
CallNext ==
    \/ call = NoCall /\ \E rows \in StuckRows, max_minutes \in {30, 60} :
          GetStuckJobs(rows, max_minutes)
    \/ call = NoCall /\ \E active \in 0..MaxCompetitors, industries \in BOOLEAN,
                           ads \in {0, 1} :
          GetAudienceInsights(active, industries, ads)

CallSpec == SmInit /\ [][CallNext]_vars

\* The process after a start: a StatusManager after __init__, with an empty
\* cache and a free lock, over a table that may hold rows an earlier run of
\* the process left.
Started ==
    /\ FETCHER_AVAILABLE = TRUE
    /\ supabase \in BOOLEAN
    /\ storeFaulty \in BOOLEAN
    /\ jobs \in [JobIds -> {NoRow, RegisteredRow(1)}]
    /\ bg = [j \in JobIds |-> NoThread]
    /\ req = [s \in Slots |-> IdleReq]
    /\ active_jobs = [j \in JobIds |-> NoRow]
    /\ lock = "free"
    /\ AuxIdle

\* Threads that share one StatusManager, the only writer of the job rows:
\* register_job while no other call for the job is under way,
\* update_job_status and get_job_status at any time.
ThreadsNext ==
    \/ \E j \in JobIds, u \in Owners :
          ~UnderWay(j) /\ RegisterJob(j, u)
    \/ \E t \in Clients, j \in JobIds, status \in Statuses \ {"pending"} :
          UpdateStore(t, j, status)
    \/ \E t \in Clients : UpdateCache(t)
    \/ \E t \in Clients, j \in JobIds : GetCheck(t, j)
    \/ \E t \in Clients : GetQuery(t)
    \/ \E t \in Clients : GetCache(t)

ThreadsSpec == Started /\ [][ThreadsNext]_vars

\* The background threads of accepted jobs inside run_for_user.
CwdNext ==
    \/ \E t \in Fetchers : FetchSaveDir(t)
    \/ \E t \in Fetchers : FetchChdir(t)
    \/ \E t \in Fetchers : FetchFinally(t)

CwdSpec == Started /\ [][CwdNext]_vars

\* Clients of the competitor routes; the table holds at most MaxRows rows.
CompNext ==
    \/ \E c \in Clients, u \in Users, raw \in {"", " ", "a", " a ", "b"} :
          /\ Len(competitors)
               + Cardinality({d \in Clients : creq[d] # NoCall /\ creq[d].fn = "add"
                                              /\ creq[d].pc # "done"})
                 < MaxRows
          /\ SendCompetitor(c, "add", u, 0, raw)
    \/ \E c \in Clients, u \in Users, id \in 1..MaxRows :
          SendCompetitor(c, "delete", u, id, "")
    \/ \E c \in Clients, u \in Users, id \in 1..MaxRows, raw \in {" a ", "b"} :
          SendCompetitor(c, "update", u, id, raw)
    \/ \E c \in Clients : AddCheck(c)
    \/ \E c \in Clients : AddInsert(c)
    \/ \E c \in Clients : OwnedCheck(c)
    \/ \E c \in Clients : DeleteWrite(c)
    \/ \E c \in Clients : UpdateWrite(c)
    \/ \E c \in Clients, u \in Users : ListCompetitors(c, u)
    \/ \E c \in Clients : CompReturn(c)

CompSpec == SmInit /\ [][CompNext]_vars

\* Clients that sign up, once each.
SignupNext ==
    \/ \E c \in Clients, email \in {"a@x.io", "A@x.io ", " a@x.io", "b@x.io"},
          valid \in BOOLEAN : SendSignup(c, email, valid)
    \/ \E c \in Clients : SignupCheck(c)
    \/ \E c \in Clients : SignupInsert(c)

SignupSpec == SmInit /\ [][SignupNext]_vars

SmNext ==
    \/ \E j \in JobIds, u \in Owners : RegisterJob(j, u)
    \/ \E j \in JobIds : GetJobStatus(j)
    \/ \E j \in JobIds, status \in Statuses \ {"pending"}, kwargs \in Kwargs :
          UpdateJobStatus(j, status, kwargs)
    \/ \E j \in JobIds : ServiceSetsRunning(j)

SmSpec == SmInit /\ [][SmNext]_vars

AuthInit ==
    /\ WebIdle
    /\ environ \in EnvValues
    /\ middleware \in BOOLEAN
    /\ issued = {}
    /\ call = NoCall
    /\ OthersIdle

AuthNext ==
    \/ \E fn \in {"signup", "login"}, u \in Users : AuthIssue(fn, u)
    \/ \E token \in issued : AuthExpire(token)
    \/ \E route \in Routes, token \in issued \cup {t \in SignedTokens : t.key = ForgedKey} :
          AuthVerify(route, token)

AuthSpec == AuthInit /\ [][AuthNext]_vars

(* ---------- the system ---------- *)
Init ==
    /\ FETCHER_AVAILABLE \in BOOLEAN
    /\ supabase \in BOOLEAN
    /\ storeFaulty \in BOOLEAN
    /\ jobs = [j \in JobIds |-> NoRow]
    /\ bg = [j \in JobIds |-> NoThread]
    /\ req = [s \in Slots |-> IdleReq]
    /\ active_jobs = [j \in JobIds |-> NoRow]
    /\ lock = "free"
    /\ AuxIdle

\* The web service: the request handlers and the background threads.
NextApi ==
    \/ \E s \in Slots, token \in Tokens, force \in BOOLEAN : SendRefresh(s, token, force)
    \/ \E s \in Slots : RefreshCheck(s)
    \/ \E s \in Slots : RefreshCreate(s)
    \/ \E s \in Slots : RefreshStart(s)
    \/ \E s \in Slots, token \in Tokens, j \in JobIds : SendCancel(s, token, j)
    \/ \E s \in Slots : CancelRead(s)
    \/ \E s \in Slots : CancelWrite(s)
    \/ \E s \in Slots, token \in Tokens : SendUserJobs(s, token)
    \/ \E s \in Slots : UserJobsRead(s)
    \/ \E s \in Slots, token \in Tokens : SendEstimate(s, token)
    \/ \E s \in Slots : EstimateRead(s)
    \/ \E s \in Slots : Return(s)
    \/ \E j \in JobIds : BgSetRunning(j)
    \/ \E j \in JobIds : BgFetchAndWrite(j)

ApiSpec == Init /\ [][NextApi]_vars

\* The web service next to a StatusManager whose owner marks jobs as stuck.
Next ==
    \/ NextApi
    \/ \E j \in JobIds : MarkJobAsStuck(j)

Spec == Init /\ [][Next]_vars

\* The background threads are scheduled, and the scraper subprocess exits or
\* is aborted by the timeout of subprocess.run.
Fairness ==
    \A j \in JobIds : WF_vars(BgSetRunning(j)) /\ WF_vars(BgFetchAndWrite(j))

LiveSpec == Init /\ [][NextApi]_vars /\ Fairness

\* Normal operation with one client per user that never forces: refresh
\* requests only, each sent after the user's previous one has returned.
InitNormal ==
    /\ Init
    /\ FETCHER_AVAILABLE /\ supabase /\ ~storeFaulty

SendRefreshInTurn(s, token) ==
    /\ \A t \in Slots :
          ~(req[t].op = "refresh" /\ InFlight(t) /\ req[t].user_id = verify_token(token))
    /\ SendRefresh(s, token, FALSE)

NextSeq ==
    \/ \E s \in Slots, token \in Tokens : SendRefreshInTurn(s, token)
    \/ \E s \in Slots : RefreshCheck(s)
    \/ \E s \in Slots : RefreshCreate(s)
    \/ \E s \in Slots : RefreshStart(s)
    \/ \E s \in Slots : Return(s)
    \/ \E j \in JobIds : BgSetRunning(j)
    \/ \E j \in JobIds : BgFetchAndWrite(j)

SeqSpec == InitNormal /\ [][NextSeq]_vars

\* Every writer of the job rows at work for the jobs of the owners: the
\* refresh and cancel handlers, the background threads, update_job_status
\* with a final status and any keyword arguments, mark_job_as_stuck.
OwnerTokens == [kind : {"valid"}, user_id : Owners]

WritersInit == InitNormal

WritersNext ==
    \/ \E s \in Slots, token \in OwnerTokens, force \in BOOLEAN :
          SendRefresh(s, token, force)
    \/ \E s \in Slots : RefreshCheck(s)
    \/ \E s \in Slots : RefreshCreate(s)
    \/ \E s \in Slots : RefreshStart(s)
    \/ \E s \in Slots, token \in OwnerTokens, j \in JobIds : SendCancel(s, token, j)
    \/ \E s \in Slots : CancelRead(s)
    \/ \E s \in Slots : CancelWrite(s)
    \/ \E s \in Slots : Return(s)
    \/ \E j \in JobIds : BgSetRunning(j)
    \/ \E j \in JobIds : BgFetchAndWrite(j)
    \/ \E j \in JobIds, status \in Terminal, kwargs \in Kwargs :
          OwnerUpdate(j, status, kwargs)
    \/ \E j \in JobIds : MarkJobAsStuck(j)

WritersSpec == WritersInit /\ [][WritersNext]_vars

(* ====================== the claims ====================== *)

\* The step of slot s's handler: its request record changes.
Steps(s) == req'[s] # req[s]

Rows == {j \in JobIds : Exists(j)}

\* C1: once a job row's status is completed or failed, no later operation
\* changes it.
C1_TerminalStatusIsFinal ==
    [][\A j \in JobIds :
          jobs[j].status \in Terminal => jobs'[j].status = jobs[j].status]_vars

\* C2: every status change of a job row is pending -> running,
\* running -> completed or running -> failed.
C2_OnlyStateMachineTransitions ==
    [][\A j \in JobIds :
          (Exists(j) /\ jobs'[j].status # jobs[j].status)
             => <<jobs[j].status, jobs'[j].status>> \in
                   {<<"pending", "running">>, <<"running", "completed">>,
                    <<"running", "failed">>}]_vars

\* C3: with unforced refresh requests that each user sends one after
\* another, at most one job row of a user has status running.
C3_AtMostOneRunningPerUser ==
    \A u \in Users : Cardinality(RunningJobsOf(u)) <= 1

\* C4: an unforced refresh request sent after an earlier one of the same
\* user returned 202, whose pre-check runs while that earlier job is neither
\* completed nor failed, returns 409.
C4_SecondRefreshIsRejected ==
    [][\A s \in Slots :
          (/\ req[s].op = "refresh" /\ req[s].pc = "check" /\ Steps(s)
           /\ \E j \in Rows : /\ jobs[j].user_id = req[s].user_id
                              /\ bg[j].pc # "none"
                              /\ jobs[j].status \notin Terminal)
             => req'[s].pc = "done" /\ req'[s].code = 409]_vars

\* C5: a refresh request without force whose pre-check finds a running row
\* of the user returns 409 (500 only if the store call raises), inserts no
\* row and starts no thread; only a forced request goes to the insert
\* without the pre-check.
C5_RunningJobRejectsRefresh ==
    [][\A s \in Slots :
          /\ (/\ req[s].op = "refresh" /\ req[s].pc = "check" /\ Steps(s)
              /\ RunningJobsOf(req[s].user_id) # {})
                => /\ req'[s].pc = "done"
                   /\ req'[s].code \in (IF storeFaulty THEN {409, 500} ELSE {409})
                   /\ jobs' = jobs
                   /\ bg' = bg
          /\ (req[s].pc = "idle" /\ req'[s].op = "refresh" /\ req'[s].pc = "create")
                => req'[s].force]_vars

C5_Witness ==
    \E s \in Slots : /\ req[s].op = "refresh" /\ req[s].pc = "done"
                     /\ req[s].code = 409
                     /\ RunningJobsOf(req[s].user_id) # {}

\* C6: a cancel request by the owner that reads a completed or failed row
\* returns 400 (500 only if the store call raises) and writes nothing.
C6_CancelOfFinishedJobRejected ==
    [][\A s \in Slots :
          (/\ req[s].op = "cancel" /\ req[s].pc = "read" /\ Steps(s)
           /\ Exists(req[s].job)
           /\ jobs[req[s].job].user_id = req[s].user_id
           /\ jobs[req[s].job].status \in Terminal)
             => /\ req'[s].pc = "done"
                /\ req'[s].code \in (IF storeFaulty THEN {400, 500} ELSE {400})
                /\ jobs' = jobs]_vars

C6_Witness ==
    \E s \in Slots, j \in Rows :
        /\ req[s].op = "cancel" /\ req[s].pc = "done" /\ req[s].code = 400
        /\ jobs[j].user_id = req[s].user_id
        /\ jobs[j].status = "completed"

\* C7: a cancel request for another user's job returns 403, one for an
\* unknown job id returns 404 (500 only if the store call raises), and
\* neither modifies a job row.
C7_CancelForeignOrUnknownJob ==
    [][\A s \in Slots :
          (req[s].op = "cancel" /\ req[s].pc = "read" /\ Steps(s))
             => /\ (Exists(req[s].job) /\ jobs[req[s].job].user_id # req[s].user_id)
                      => /\ req'[s].pc = "done"
                         /\ req'[s].code \in (IF storeFaulty THEN {403, 500} ELSE {403})
                         /\ jobs' = jobs
                /\ ~Exists(req[s].job)
                      => /\ req'[s].pc = "done"
                         /\ req'[s].code \in (IF storeFaulty THEN {404, 500} ELSE {404})
                         /\ jobs' = jobs]_vars

C7_Witness ==
    /\ \E s \in Slots : req[s].op = "cancel" /\ req[s].pc = "done" /\ req[s].code = 403
    /\ Rows # {}

C7_WitnessUnknown ==
    \E s \in Slots : req[s].op = "cancel" /\ req[s].pc = "done" /\ req[s].code = 404

\* C8: the row the background thread writes at its end has status completed
\* if and only if the scraper subprocess ran and exited with code 0;
\* otherwise it has status failed, ads_fetched 0 and a non-empty
\* error_message.
C8_FinalStatusReflectsExitCode ==
    [][\A j \in JobIds :
          (bg[j].pc = "fetch" /\ bg'[j].pc = "done" /\ jobs'[j] # jobs[j])
             => /\ jobs'[j].status = "completed" <=> bg'[j].exit0
                /\ ~bg'[j].exit0
                      => /\ jobs'[j].status = "failed"
                         /\ jobs'[j].ads_fetched = 0
                         /\ jobs'[j].error_message > 0]_vars

\* A timed-out run has been recorded.
C8_Witness ==
    \E j \in Rows : /\ bg[j].pc = "done" /\ ~bg[j].exit0
                    /\ jobs[j].status = "failed"
                    /\ jobs[j].ads_fetched = 0
                    /\ jobs[j].error_message = TimeoutMsgLen
                    /\ jobs[j].logs = TimeoutMsgLen

\* C9: with store calls that succeed, every job whose refresh request
\* returned 202 eventually has status completed or failed.
C9_AcceptedJobFinishes ==
    \A j \in JobIds :
        (~storeFaulty /\ bg[j].pc # "none") ~> (jobs[j].status \in Terminal)

C9_Witness ==
    \E j \in Rows : /\ ~storeFaulty /\ bg[j].pc = "done"
                    /\ jobs[j].status \in Terminal
                    /\ \E s \in Slots : req[s].op = "cancel" /\ req[s].job = j

\* C10: while the fetcher capability flag is false, a refresh request with
\* a valid token returns 503, and no job row and no background thread
\* exists.
C10_UnavailableFetcherGives503 ==
    ~FETCHER_AVAILABLE
       => /\ \A s \in Slots :
                (req[s].op = "refresh" /\ req[s].user_id \in Users)
                   => req[s].pc = "done" /\ req[s].code = 503
          /\ \A j \in JobIds : jobs[j] = NoRow /\ bg[j] = NoThread

C10_Witness ==
    /\ ~FETCHER_AVAILABLE
    /\ \E s \in Slots : /\ req[s].op = "refresh" /\ req[s].user_id \in Users
                        /\ req[s].code = 503

\* C12: a token that signup or login issued and that has not expired is
\* accepted by every token-protected route, whether or not SECRET_KEY is
\* set in the environment.
C12_IssuedTokenAcceptedEverywhere ==
    (call.fn \in Routes /\ call.token \in issued /\ ~call.token.expired)
       => call.accepted

\* C13: a get_job_status(job_id) that follows a register_job(job_id, ...)
\* which returned True, with no StatusManager call in between, returns a row
\* with status pending and ads_fetched 0, whatever the web service wrote to
\* the store row meanwhile.
C13_RegisterThenGet ==
    [][\A j \in JobIds :
          (/\ call.fn = "register_job" /\ call.job_id = j /\ call.ret = "True"
           /\ GetJobStatus(j))
             => /\ call'.row.status = "pending"
                /\ call'.row.ads_fetched = 0]_vars

\* The get returned the registered row although the store row is running.
C13_Witness ==
    /\ call.fn = "get_job_status" /\ call.after = "register_job" /\ call.same
    /\ call.row.status = "pending" /\ call.row.ads_fetched = 0
    /\ jobs[call.job_id].status = "running"

\* The fields of a job row.
Fields == DOMAIN NoRow

\* row carries what update_job_status(status, kwargs) asks for on top of
\* old: the status, every keyword argument that is not None, and the old
\* value of every other field but end_time.
PartiallyUpdated(old, row, status, kwargs) ==
    /\ row.status = status
    /\ \A f \in Fields \ {"status"} :
          IF f \in DOMAIN kwargs /\ kwargs[f] # None THEN row[f] = kwargs[f][1]
          ELSE f # "end_time" => row[f] = old[f]

\* C14: an update_job_status call whose store call executes overwrites the
\* status and every supplied field and leaves the other fields (end_time
\* apart) unchanged, in the store row and in the cached entry of the job.
C14_PartialUpdate ==
    [][\A j \in JobIds, status \in Statuses, kwargs \in Kwargs :
          (UpdateJobStatus(j, status, kwargs) /\ supabase /\ call'.ret # "False")
             => /\ Exists(j) => PartiallyUpdated(jobs[j], jobs'[j], status, kwargs)
                /\ active_jobs[j] # NoRow
                      => PartiallyUpdated(active_jobs[j], active_jobs'[j],
                                          status, kwargs)]_vars

\* C15: every job row whose status is completed or failed has its end_time
\* set, whichever writer produced the status.
C15_TerminalRowHasEndTime ==
    \A j \in JobIds : jobs[j].status \in Terminal => jobs[j].end_time

\* update_job_status completed a row without being given an end_time: the
\* background thread never completes a row without logs, and only the
\* arguments of mark_job_as_stuck carry an end_time.
C15_Witness ==
    \E j \in Rows : /\ jobs[j].status = "completed" /\ jobs[j].end_time
                    /\ jobs[j].logs = 0 /\ jobs[j].error_message = 0

\* C16: get_job_status returns the cached entry of a cached job without
\* querying the store; for a job that is not cached it returns the store
\* row and caches it, so that the next get of that job does not query the
\* store.
C16_GetPrefersCache ==
    [][\A j \in JobIds :
          GetJobStatus(j)
             => /\ active_jobs[j] # NoRow
                      => /\ call'.row = active_jobs[j]
                         /\ ~call'.queried
                /\ (active_jobs[j] = NoRow /\ call'.row # NoRow)
                      => /\ call'.row = jobs[j]
                         /\ call'.queried
                         /\ active_jobs'[j] = jobs[j]
                /\ (/\ call.fn = "get_job_status" /\ call.job_id = j
                    /\ call.row # NoRow)
                      => ~call'.queried]_vars

\* A second get in a row returned the cached row without a query, while
\* the store row has changed.
C16_Witness ==
    /\ call.fn = "get_job_status" /\ call.after = "get_job_status" /\ call.same
    /\ ~call.queried
    /\ call.row = active_jobs[call.job_id]
    /\ call.row.status = "pending"
    /\ jobs[call.job_id].status = "running"

\* C17 as stated: a running job whose elapsed time has reached the
\* estimated total is shown with progress 95, for every competitor count
\* and platform selector.
C17_ProgressIs95 ==
    (/\ call.fn = "format_job_for_display"
     /\ call.job.status = "running" /\ call.job.start_time # None
     /\ call.job.start_time[1] >= EstimatedTotal(call.job))
       => call.out.progress = 95 * 10

\* C17 amended: a running job whose elapsed time has reached the estimated
\* total is shown with progress 95 when it has at least one competitor, and
\* with progress 50 when it has none (the estimated total is then 0).
C17_ProgressIs95WithCompetitors ==
    (/\ call.fn = "format_job_for_display"
     /\ call.job.status = "running" /\ call.job.start_time # None
     /\ call.job.start_time[1] >= EstimatedTotal(call.job))
       => call.out.progress = IF call.job.total_competitors >= 1 THEN 95 * 10
                              ELSE 50 * 10

\* One competitor on one platform, 30 seconds in: exactly the estimate.
C17_Witness ==
    /\ call.fn = "format_job_for_display"
    /\ call.job.status = "running" /\ call.job.start_time = <<30>>
    /\ call.job.total_competitors = 1 /\ call.job.platform = "meta"
    /\ call.out.progress = 950

\* The duration text the claim describes for d seconds.
C18_Expected(d) ==
    IF d < 60 THEN Text("{}s", d, 0)
    ELSE IF d < 3600 THEN Text("{}m {}s", d \div 60, d % 60)
    ELSE Text("{}h {}m", d \div 3600, (d % 3600) \div 60)

\* C18: for a job whose duration_seconds is an integer d, both
\* format_job_for_display and get_user_jobs show '<d>s' below a minute,
\* '<m>m <s>s' below an hour and '<h>h <m>m' from an hour on.
C18_DurationFormat ==
    (/\ call.fn \in {"format_job_for_display", "get_user_jobs"}
     /\ call.job.duration_seconds # None
     /\ call.job.end_time = None)
       => call.out.duration_formatted = C18_Expected(call.job.duration_seconds[1])

\* C19: when some pattern matches the output of a successful run, the ads
\* count is the largest integer captured by the first pattern in list order
\* that matches; the JSON-array length and the substring count are used only
\* when no pattern matches.
C19_FirstPatternMaxWins ==
    call.fn = "run_for_user"
       => LET hits == {i \in DOMAIN call.output : call.output[i].kind = "match"}
          IN hits # {}
                => \E i \in hits :
                      /\ \A k \in hits : call.output[i].pattern <= call.output[k].pattern
                      /\ \A k \in hits :
                            call.output[k].pattern = call.output[i].pattern
                               => call.output[k].n <= call.output[i].n
                      /\ call.ads_count = call.output[i].n

\* C20: the logs value of a job row never exceeds 10,000 characters.
C20_StoredLogsWithinCap ==
    \A j \in JobIds : jobs[j].logs <= LogCap

\* C11: a refresh, user-jobs, estimate-time or cancel-job request whose
\* Authorization header is missing, invalid or expired returns 401 from the
\* step that receives it: the handler reaches none of its store calls and
\* no job row changes.
C11_BadTokenGives401 ==
    [][\A s \in Slots :
          (req[s].pc = "idle" /\ Steps(s) /\ req'[s].auth # "valid")
             => /\ req'[s].op \in {"refresh", "user-jobs", "estimate-time", "cancel"}
                /\ req'[s].pc = "done"
                /\ req'[s].code = 401
                /\ jobs' = jobs]_vars

\* An expired token has been answered 401 while the store works and holds
\* a row.
C11_Witness ==
    /\ supabase /\ FETCHER_AVAILABLE /\ Rows # {}
    /\ \E s \in Slots : /\ req[s].op = "user-jobs" /\ req[s].auth = "expired"
                        /\ req[s].pc = "done" /\ req[s].code = 401

\* C21: get_stuck_jobs(max_minutes), with a working store, returns exactly
\* the ids of the jobs whose status is running and whose start_time is
\* earlier than now minus max_minutes.
C21_StuckJobsListed ==
    (call.fn = "get_stuck_jobs" /\ supabase /\ call.ok)
       => call.ret = {j \in JobIds : /\ call.rows[j].status = "running"
                                     /\ call.rows[j].age > call.max_minutes}

\* C25: every audience-insights response whose data holds canned values or
\* randomly generated numbers carries is_default_data = true.
C25_SyntheticDataIsFlagged ==
    (call.fn = "audience-insights" /\ call.out.data # None)
       => LET data == call.out.data[1]
          IN (data.canned \/ data.random) => data.is_default_data

\* C22: no exception raised by a store call escapes a request handler of
\* ads_refresh, the background thread or a StatusManager method: each is
\* caught and turned into a failure value or an error response.
C22_NoExceptionEscapes ==
    \A s \in Slots : ~req[s].escaped

\* C23: a register_job call during which the store raises, on the
\* competitor count or on the insert, returns False and adds no entry to
\* the cache.
C23_FailedRegisterLeavesNoTrace ==
    [][(call' # call /\ call'.fn = "register_job" /\ call'.raised)
          => /\ call'.ret = "False"
             /\ active_jobs' = active_jobs]_vars

\* A register_job whose store call raised returned False for a job that
\* is in neither the cache nor the table, next to an earlier cached job.
C23_Witness ==
    /\ call.fn = "register_job" /\ call.raised /\ call.ret = "False"
    /\ active_jobs[call.job_id] = NoRow /\ ~Exists(call.job_id)
    /\ \E j \in JobIds : active_jobs[j] # NoRow

\* C26: every update_job_status call returns True or False, also for a job
\* that is not in the cache, and leaves the cache lock released.
C26_UpdateReturnsAndFreesLock ==
    /\ call.fn = "update_job_status" => call.ret \in {"True", "False"}
    /\ lock = "free"

\* The status of the cached entry of a job is that of its store row.
CacheAgreesWithStore(j) ==
    active_jobs[j] # NoRow => active_jobs[j].status = jobs[j].status

\* C27 as stated: with one StatusManager as the only writer, whenever no
\* update_job_status call is in progress the status of a cached job equals
\* that of its store row, also after calls that ran concurrently.
C27_CacheFollowsStore ==
    (\A t \in Clients : updates[t].fn # "update_job_status")
       => \A j \in JobIds : CacheAgreesWithStore(j)

\* C27 amended: with one StatusManager as the only writer, for a job none
\* of whose calls began while another call for it was in progress, whenever
\* no call for the job is in progress the status of its cached entry equals
\* that of its store row.
C27_CacheFollowsStoreInTurn ==
    \A j \in JobIds : (~overlapped[j] /\ ~UnderWay(j)) => CacheAgreesWithStore(j)

\* Two updates in turn have brought a registered job to completed, in the
\* cache and in the store, while calls for the other job overlapped.
C27_Witness ==
    \E j, k \in JobIds :
        /\ ~overlapped[j] /\ ~UnderWay(j) /\ overlapped[k]
        /\ active_jobs[j] # NoRow
        /\ active_jobs[j].status = "completed"
        /\ jobs[j].status = "completed"
        /\ jobs[j].end_time

\* C28: once every run_for_user call has returned, the working directory
\* of the process is the one it had before the first call, also after
\* calls that ran concurrently.
C28_CwdRestored ==
    (\A t \in Fetchers : fetches[t] = NoCall) => cwd = "start"

\* C29: for each user, no two active competitor rows have the same name.
C29_ActiveNamesUnique ==
    \A i, k \in DOMAIN competitors :
        (/\ i # k
         /\ competitors[i].user_id = competitors[k].user_id
         /\ competitors[i].is_active /\ competitors[k].is_active)
           => competitors[i].name # competitors[k].name

\* C24: no competitor operation removes a row of the competitors table;
\* the write of a delete only sets is_active to false; the list of a user
\* holds active rows only; and a delete or an update whose check reads a
\* deleted competitor returns 404 (500 only if the store call raises).
C24_SoftDeleteOnly ==
    [][/\ Len(competitors') >= Len(competitors)
       /\ \A i \in DOMAIN competitors :
             competitors'[i].user_id = competitors[i].user_id
       /\ \A c \in Clients :
             /\ (creq[c].fn = "delete" /\ creq[c].pc = "write" /\ creq'[c] # creq[c])
                   => competitors' \in
                         {competitors,
                          [competitors EXCEPT ![creq[c].id].is_active = FALSE]}
             /\ (/\ creq[c].fn \in {"delete", "update"} /\ creq[c].pc = "check"
                 /\ creq'[c] # creq[c]
                 /\ creq[c].id \in DOMAIN competitors
                 /\ ~competitors[creq[c].id].is_active)
                   => /\ creq'[c].pc = "done"
                      /\ creq'[c].code \in (IF storeFaulty THEN {404, 500} ELSE {404})
             /\ (creq[c] = NoCall /\ creq'[c].fn = "list")
                   => \A i \in creq'[c].data : competitors[i].is_active]_vars

\* The owner's update of a competitor was answered 404: its row is still
\* in the table, with is_active false.
C24_Witness ==
    \E c \in Clients :
        /\ creq[c].fn = "update" /\ creq[c].pc = "done" /\ creq[c].code = 404
        /\ creq[c].id \in DOMAIN competitors
        /\ competitors[creq[c].id].user_id = creq[c].user_id
        /\ ~competitors[creq[c].id].is_active

\* C30: no two rows of the users table hold the same normalized email,
\* whatever the interleaving of the signup requests.
C30_EmailsUnique ==
    \A i, k \in DOMAIN users : i # k => users[i] # users[k]
====
